---- MODULE Spec2Model ----
(***************************************************************************)
(* Model of the beer-agenda event pipeline:                                *)
(*   main.py            main, generate_markdown                            *)
(*   crawlers/facebook  crawl_facebook_events                              *)
(*   models/event.py    Event                                              *)
(* The browser engine and the LLM are external collaborators: the value    *)
(* crawler.arun returns is an input of the model.  Text is modelled as a   *)
(* sequence of one-character strings, so that rendering, line splitting    *)
(* and prefix tests work on characters as the code's strings do.           *)
(*                                                                         *)
(* crawlers/facebook.py line 5 imports get_extraction_strategy, while      *)
(* extractors/events.py defines get_facebook_events_extraction_strategy:   *)
(* as the files stand the import fails before main runs.  The model        *)
(* describes the bodies of main, crawl_facebook_events and                 *)
(* generate_markdown as written, that is, the pipeline once the name       *)
(* resolves; the extraction strategy itself is part of the collaborator.   *)
(***************************************************************************)
EXTENDS Naturals, Sequences, FiniteSets

VARIABLES
    pc,       \* position of the run inside main / crawl_facebook_events
    fs,       \* the file system below the working directory
    fs0,      \* the file system as it was when the current run started
    result,   \* the CrawlResult crawler.arun returned in the current run
    events,   \* the list crawl_facebook_events returned (main's `events`)
    exc,      \* the exception that ended the current run, if one did
    log,      \* what the current run printed, in order
    trace     \* the external effects of the current run, in order

vars == <<pc, fs, fs0, result, events, exc, log, trace>>

----------------------------------------------------------------------------
(* Bounds of the model *)

\* longest extracted JSON array
MaxItems == 2
\* longest event list of the rendering specification
MaxEvents == 2
\* most characters the field values of one event list hold together
MaxChars == 2

----------------------------------------------------------------------------
(* Text *)

Chars == {"a", "#", " ", "\n"}

NL == <<"\n">>

HEADER_TITLE == <<"#", " ", "É", "v", "é", "n", "e", "m", "e", "n", "t", "s">>
GENERATED_PREFIX == <<">", " ", "G", "é", "n", "é", "r", "é", " ", "l", "e", " ">>
SOURCE_PREFIX == <<">", " ", "S", "o", "u", "r", "c", "e", ":", " ">>
RULE == <<"-", "-", "-">>
HEADING_PREFIX == <<"#", "#", " ">>
DATE_LABEL == <<"-", " ", "*", "*", "D", "a", "t", "e", ":", "*", "*", " ">>
ORGANIZER_LABEL == <<"-", " ", "*", "*", "O", "r", "g", "a", "n", "i", "s", "a", "t", "e", "u", "r", ":", "*", "*", " ">>
LINK_LABEL == <<"-", " ", "*", "*", "L", "i", "e", "n", ":", "*", "*", " ">>

URL_PREFIX == <<"h", "t", "t", "p", "s", ":", "/", "/", "w", "w", "w", ".", "f", "a", "c", "e", "b", "o", "o", "k", ".", "c", "o", "m", "/">>
URL_SUFFIX == <<"/", "e", "v", "e", "n", "t", "s">>
page_name == <<"B", "r", "a", "s", "s", "e", "r", "i", "e", "O", "r", "v", "i", "l", "l", "e">>
source_url == URL_PREFIX \o page_name \o URL_SUFFIX

Digit == <<"0", "1", "2", "3", "4", "5", "6", "7", "8", "9">>

\* str(n) of a small natural number
Str(n) == IF n < 10 THEN <<Digit[n + 1]>>
          ELSE <<Digit[(n \div 10) + 1], Digit[(n % 10) + 1]>>

Pad2(n) == <<Digit[((n \div 10) % 10) + 1], Digit[(n % 10) + 1]>>

Pad4(n) == Pad2(n \div 100) \o Pad2(n % 100)

\* datetime.strftime("%Y-%m-%d %H:%M")
strftime(now) ==
    Pad4(now.year) \o <<"-">> \o Pad2(now.month) \o <<"-">> \o Pad2(now.day)
        \o <<" ">> \o Pad2(now.hour) \o <<":">> \o Pad2(now.minute)

\* the values datetime.now() takes in the model
Clocks == { [year |-> 2026, month |-> 1, day |-> 5, hour |-> 9, minute |-> 7],
            [year |-> 2026, month |-> 11, day |-> 4, hour |-> 18, minute |-> 30] }

----------------------------------------------------------------------------
(* models/event.py *)

Fields == {"date", "title", "organizer", "link"}

Event(item) == [f \in Fields |-> item[f]]

\* the required fields a JSON object lacks
MissingFields(item) == Fields \ DOMAIN item

----------------------------------------------------------------------------
(* main.py: generate_markdown *)

OUTPUT_DIR == "outputs"
EVENTS_MD == "outputs/events.md"
DEBUG_MD == "outputs/debug_markdown.md"
Paths == {EVENTS_MD, DEBUG_MD}

NoFile == [exists |-> FALSE, content |-> <<>>]

File(text) == [exists |-> TRUE, content |-> text]

\* OUTPUT_DIR.mkdir(exist_ok=True)
Mkdir(f) == [f EXCEPT !.dir = TRUE]

\* a write that appends to what the file held
WriteText_Append(f, path, text) ==
    [f EXCEPT !.files[path] = File(f.files[path].content \o text)]

\* write_text / open(path, "w").write: the file holds the text and nothing else
WriteText(f, path, text) == [f EXCEPT !.files[path] = File(text)]

Header(now, url) ==
    HEADER_TITLE \o NL \o NL
        \o GENERATED_PREFIX \o strftime(now) \o NL
        \o SOURCE_PREFIX \o url \o NL
        \o NL \o RULE \o NL \o NL

\* a section whose Organisateur line comes before its Date line
RenderEvent_OrganizerFirst(event) ==
    HEADING_PREFIX \o event.title \o NL
        \o ORGANIZER_LABEL \o event.organizer \o NL
        \o DATE_LABEL \o event.date \o NL
        \o LINK_LABEL \o event.link \o NL
        \o NL

\* a section whose heading line is not ended before the Date line
RenderEvent_NoHeadingBreak(event) ==
    HEADING_PREFIX \o event.title
        \o DATE_LABEL \o event.date \o NL
        \o ORGANIZER_LABEL \o event.organizer \o NL
        \o LINK_LABEL \o event.link \o NL
        \o NL

RenderEvent(event) ==
    HEADING_PREFIX \o event.title \o NL
        \o DATE_LABEL \o event.date \o NL
        \o ORGANIZER_LABEL \o event.organizer \o NL
        \o LINK_LABEL \o event.link \o NL
        \o NL

RECURSIVE RenderEvents(_)
RenderEvents(evs) ==
    IF evs = <<>> THEN <<>>
    ELSE RenderEvent(Head(evs)) \o RenderEvents(Tail(evs))

generate_markdown(f, evs, url, now) ==
    WriteText(Mkdir(f), EVENTS_MD, Header(now, url) \o RenderEvents(evs))

----------------------------------------------------------------------------
(* What crawler.arun can return *)

Titles == { <<"A">>, <<"B">> }

SampleValue(f) ==
    CASE f = "date" -> <<"1">>
      [] f = "organizer" -> <<"o">>
      [] f = "link" -> <<"u">>
      [] OTHER -> <<"A">>

\* a JSON object holding the fields outside `missing`
JsonItem(title, missing) ==
    [f \in Fields \ missing |-> IF f = "title" THEN title ELSE SampleValue(f)]

MissingSets == { {f} : f \in Fields } \cup { {"date", "link"} }

Items ==
    { JsonItem(t, {}) : t \in Titles }
        \cup { JsonItem(<<"A">>, m) : m \in MissingSets }

Arrays == UNION { [1..n -> Items] : n \in 0..MaxItems }

\* extracted_content: None, "", text that is no JSON, a JSON object with
\* members, or a JSON array of objects
NoContent == [kind |-> "none", items |-> <<>>]

Contents ==
    { [kind |-> k, items |-> <<>>] : k \in {"none", "empty", "invalid", "object"} }
        \cup { [kind |-> "array", items |-> a] : a \in Arrays }

Markdowns == { <<>>, <<"m">> }

ErrorMessages == {"timeout"}

CrawlResults ==
    { [success |-> TRUE, markdown |-> m, extracted_content |-> c, error_message |-> ""] :
        m \in Markdowns, c \in Contents }
    \cup
    { [success |-> FALSE, markdown |-> m, extracted_content |-> c, error_message |-> e] :
        m \in Markdowns, e \in ErrorMessages,
        c \in { NoContent, [kind |-> "array", items |-> <<JsonItem(<<"A">>, {})>>] } }

NoResult == [success |-> FALSE, markdown |-> <<>>, extracted_content |-> NoContent,
             error_message |-> ""]

\* Python truthiness of result.extracted_content
Truthy(content) == content.kind \notin {"none", "empty"}

----------------------------------------------------------------------------
(* crawlers/facebook.py: crawl_facebook_events *)

NoExc == [type |-> "None", missing |-> {}]

Raised(type) == [type |-> type, missing |-> {}]

\* pydantic's ValidationError lists the required fields the object lacks
ValidationError(item) == [type |-> "ValidationError", missing |-> MissingFields(item)]

Printed(fmt, arg) == [fmt |-> fmt, arg |-> arg]

\* a mapper that skips the objects that do not validate
RECURSIVE MapItems_SkipInvalid(_)
MapItems_SkipInvalid(items) ==
    IF items = <<>> THEN [ok |-> TRUE, events |-> <<>>, exc |-> NoExc]
    ELSE LET rest == MapItems_SkipInvalid(Tail(items))
         IN  IF MissingFields(Head(items)) # {}
             THEN rest
             ELSE [rest EXCEPT !.events = <<Event(Head(items))>> \o rest.events]

\* a mapper that keeps one record per distinct object
RECURSIVE MapItems_Dedup(_)
MapItems_Dedup(items) ==
    IF items = <<>> THEN [ok |-> TRUE, events |-> <<>>, exc |-> NoExc]
    ELSE IF MissingFields(Head(items)) # {}
    THEN [ok |-> FALSE, events |-> <<>>, exc |-> ValidationError(Head(items))]
    ELSE LET rest == MapItems_Dedup(Tail(items))
         IN  IF ~rest.ok THEN rest
             ELSE IF \E i \in DOMAIN rest.events : rest.events[i] = Event(Head(items))
             THEN rest
             ELSE [rest EXCEPT !.events = <<Event(Head(items))>> \o rest.events]

\* [Event(**item) for item in extracted]: the first object that does not
\* validate raises, and the comprehension yields nothing
RECURSIVE MapItems(_)
MapItems(items) ==
    IF items = <<>> THEN [ok |-> TRUE, events |-> <<>>, exc |-> NoExc]
    ELSE IF MissingFields(Head(items)) # {}
    THEN [ok |-> FALSE, events |-> <<>>, exc |-> ValidationError(Head(items))]
    ELSE LET rest == MapItems(Tail(items))
         IN  IF rest.ok
             THEN [rest EXCEPT !.events = <<Event(Head(items))>> \o rest.events]
             ELSE rest

Terminal == {"no_events", "done", "aborted"}

\* main.py 41-45, facebook.py 61-67: main starts and awaits crawler.arun
Main_Crawl ==
    /\ pc \in {"idle"} \cup Terminal
    /\ pc' = "arun"
    /\ fs0' = fs
    /\ result' = NoResult
    /\ events' = <<>>
    /\ exc' = NoExc
    /\ log' = <<Printed("Crawling {} events...", page_name)>>
    /\ trace' = <<"fetch">>
    /\ UNCHANGED fs

\* facebook.py 67: crawler.arun returns its CrawlResult
Crawl_Arun ==
    /\ pc = "arun"
    /\ \E r \in CrawlResults : result' = r
    /\ pc' = "check_success"
    /\ UNCHANGED <<fs, fs0, events, exc, log, trace>>

\* crawl_facebook_events without the `return []` of the failure branch
Crawl_CheckSuccess_NoReturn ==
    /\ pc = "check_success"
    /\ log' = IF ~result.success
              THEN Append(log, Printed("Crawl failed: {}", result.error_message))
              ELSE log
    /\ pc' = "debug"
    /\ UNCHANGED <<fs, fs0, result, events, exc, trace>>

\* facebook.py 69-71
Crawl_CheckSuccess ==
    /\ pc = "check_success"
    /\ IF ~result.success
       THEN /\ log' = Append(log, Printed("Crawl failed: {}", result.error_message))
            /\ events' = <<>>
            /\ pc' = "main_check"
       ELSE /\ pc' = "debug"
            /\ UNCHANGED <<log, events>>
    /\ UNCHANGED <<fs, fs0, result, exc, trace>>

\* facebook.py 73-78: open(debug_path, "w") raises FileNotFoundError when
\* the outputs directory does not exist
Crawl_DebugMarkdown ==
    /\ pc = "debug"
    /\ IF result.markdown = <<>>
       THEN /\ pc' = "check_extracted"
            /\ UNCHANGED <<fs, exc, log, trace>>
       ELSE /\ trace' = Append(trace, "write_debug")
            /\ IF fs.dir
               THEN /\ fs' = WriteText(fs, DEBUG_MD, result.markdown)
                    /\ log' = Append(log, Printed("Debug markdown saved to {}", DEBUG_MD))
                    /\ pc' = "check_extracted"
                    /\ UNCHANGED exc
               ELSE /\ exc' = Raised("FileNotFoundError")
                    /\ pc' = "aborted"
                    /\ UNCHANGED <<fs, log>>
    /\ UNCHANGED <<fs0, result, events>>

\* an empty extraction answered by fetching the page again
Crawl_CheckExtracted_Retry ==
    /\ pc = "check_extracted"
    /\ IF ~Truthy(result.extracted_content)
       THEN /\ log' = Append(log, Printed("No content extracted.", ""))
            /\ trace' = Append(trace, "fetch")
            /\ pc' = "arun"
       ELSE /\ pc' = "map"
            /\ UNCHANGED <<log, trace>>
    /\ UNCHANGED <<fs, fs0, result, events, exc>>

\* facebook.py 80-82
Crawl_CheckExtracted ==
    /\ pc = "check_extracted"
    /\ IF ~Truthy(result.extracted_content)
       THEN /\ log' = Append(log, Printed("No content extracted.", ""))
            /\ events' = <<>>
            /\ pc' = "main_check"
       ELSE /\ pc' = "map"
            /\ UNCHANGED <<log, events>>
    /\ UNCHANGED <<fs, fs0, result, exc, trace>>

\* facebook.py 84-85: json.loads, then one Event per element
Crawl_MapEvents ==
    /\ pc = "map"
    /\ trace' = Append(trace, "map")
    /\ LET content == result.extracted_content
           mapped == MapItems(content.items)
       IN  CASE content.kind = "invalid" ->
                  /\ exc' = Raised("JSONDecodeError")
                  /\ pc' = "aborted"
                  /\ UNCHANGED events
             [] content.kind = "object" ->
                  /\ exc' = Raised("TypeError")
                  /\ pc' = "aborted"
                  /\ UNCHANGED events
             [] OTHER ->
                  IF mapped.ok
                  THEN /\ events' = mapped.events
                       /\ pc' = "main_check"
                       /\ UNCHANGED exc
                  ELSE /\ exc' = mapped.exc
                       /\ pc' = "aborted"
                       /\ UNCHANGED events
    /\ UNCHANGED <<fs, fs0, result, log>>

\* main.py 47-51
Main_CheckEvents ==
    /\ pc = "main_check"
    /\ IF events = <<>>
       THEN /\ log' = Append(log, Printed("No events found.", ""))
            /\ pc' = "no_events"
       ELSE /\ log' = Append(log, Printed("Found {} events.", Str(Len(events))))
            /\ pc' = "generate"
    /\ UNCHANGED <<fs, fs0, result, events, exc, trace>>

\* main.py 52-53 with generate_markdown, main.py 11-36
Main_GenerateMarkdown ==
    /\ pc = "generate"
    /\ \E now \in Clocks : fs' = generate_markdown(fs, events, source_url, now)
    /\ trace' = trace \o <<"mkdir", "write_report">>
    /\ log' = log \o <<Printed("Markdown saved to {}", EVENTS_MD), Printed("Done!", "")>>
    /\ pc' = "done"
    /\ UNCHANGED <<fs0, result, events, exc>>

\* the file system a run can start from: the outputs directory may not exist
InitFs == { [dir |-> d, files |-> [p \in Paths |-> NoFile]] : d \in BOOLEAN }

Init ==
    /\ pc = "idle"
    /\ fs \in InitFs
    /\ fs0 = fs
    /\ result = NoResult
    /\ events = <<>>
    /\ exc = NoExc
    /\ log = <<>>
    /\ trace = <<>>

Next ==
    \/ Main_Crawl
    \/ Crawl_Arun
    \/ Crawl_CheckSuccess
    \/ Crawl_DebugMarkdown
    \/ Crawl_CheckExtracted
    \/ Crawl_MapEvents
    \/ Main_CheckEvents
    \/ Main_GenerateMarkdown

Spec == Init /\ [][Next]_vars

\* the run's own steps: sequential code that runs on once the fetch returned
RunStep ==
    \/ Crawl_CheckSuccess
    \/ Crawl_DebugMarkdown
    \/ Crawl_CheckExtracted
    \/ Crawl_MapEvents
    \/ Main_CheckEvents
    \/ Main_GenerateMarkdown

FairSpec == Spec /\ WF_vars(RunStep)

----------------------------------------------------------------------------
(* generate_markdown on its own, applied to event lists with arbitrary     *)
(* field values                                                            *)

EmptyEvent == [f \in Fields |-> <<>>]

EventChars(event) ==
    Len(event.date) + Len(event.title) + Len(event.organizer) + Len(event.link)

RECURSIVE TotalChars(_)
TotalChars(evs) ==
    IF evs = <<>> THEN 0 ELSE EventChars(Head(evs)) + TotalChars(Tail(evs))

\* one more Event, its fields still empty
RT_NewEvent ==
    /\ pc = "rt_build"
    /\ Len(events) < MaxEvents
    /\ events' = Append(events, EmptyEvent)
    /\ UNCHANGED <<pc, fs, fs0, result, exc, log, trace>>

\* one more character in a field of the last Event
RT_AppendChar ==
    /\ pc = "rt_build"
    /\ events # <<>>
    /\ TotalChars(events) < MaxChars
    /\ \E f \in Fields, c \in Chars :
           events' = [events EXCEPT ![Len(events)][f] = Append(@, c)]
    /\ UNCHANGED <<pc, fs, fs0, result, exc, log, trace>>

\* main.py 11-36: generate_markdown(events, source_url)
RT_GenerateMarkdown ==
    /\ pc = "rt_build"
    /\ \E now \in Clocks : fs' = generate_markdown(fs, events, source_url, now)
    /\ trace' = trace \o <<"mkdir", "write_report">>
    /\ log' = Append(log, Printed("Markdown saved to {}", EVENTS_MD))
    /\ pc' = "rt_written"
    /\ UNCHANGED <<fs0, result, events, exc>>

\* generate_markdown is called on a working directory without outputs/
InitRT ==
    /\ pc = "rt_build"
    /\ fs \in { f \in InitFs : ~f.dir }
    /\ fs0 = fs
    /\ result = NoResult
    /\ events = <<>>
    /\ exc = NoExc
    /\ log = <<>>
    /\ trace = <<>>

NextRT ==
    \/ RT_NewEvent
    \/ RT_AppendChar
    \/ RT_GenerateMarkdown

SpecRT == InitRT /\ [][NextRT]_vars

----------------------------------------------------------------------------
(* Reading a report back: its lines, and the titles of its "## " headings  *)

\* text.split("\n"): the pieces between consecutive line breaks
SplitLines(text) ==
    LET breaks == { i \in DOMAIN text : text[i] = "\n" }
        n == Cardinality(breaks)
        Break(k) ==
            IF k = 0 THEN 0
            ELSE IF k = n + 1 THEN Len(text) + 1
            ELSE CHOOSE i \in breaks : Cardinality({ j \in breaks : j <= i }) = k
    IN  [k \in 1..(n + 1) |-> SubSeq(text, Break(k - 1) + 1, Break(k) - 1)]

StartsWith(line, prefix) ==
    /\ Len(line) >= Len(prefix)
    /\ SubSeq(line, 1, Len(prefix)) = prefix

IsHeading(line) == StartsWith(line, HEADING_PREFIX)

\* one block per "## " heading line; a block's title is the rest of that line
HeadingTitles(text) ==
    LET heads == SelectSeq(SplitLines(text), IsHeading)
    IN  [i \in 1..Len(heads) |-> SubSeq(heads[i], Len(HEADING_PREFIX) + 1, Len(heads[i]))]

TitlesOf(evs) == [i \in 1..Len(evs) |-> evs[i].title]

Count(seq, x) == Cardinality({ i \in DOMAIN seq : seq[i] = x })

Report == fs.files[EVENTS_MD]

InRun == pc \notin {"idle", "arun", "rt_build", "rt_written"}

Logged(fmt, arg) ==
    \E i \in DOMAIN log : log[i].fmt = fmt /\ log[i].arg = arg

----------------------------------------------------------------------------
(* Properties *)

FetchFailed == InRun /\ ~result.success

EmptyExtraction ==
    InRun /\ result.success /\ ~Truthy(result.extracted_content)

HasArray ==
    InRun /\ result.success /\ result.extracted_content.kind = "array"

ArrayItems == result.extracted_content.items

InvalidAt(i) == MissingFields(ArrayItems[i]) # {}

HasInvalid == HasArray /\ \E i \in DOMAIN ArrayItems : InvalidAt(i)

FirstInvalid ==
    CHOOSE i \in DOMAIN ArrayItems :
        InvalidAt(i) /\ \A j \in 1..(i - 1) : ~InvalidAt(j)

\* C1: after a fetch failure the run writes no file at all, prints the
\* error message, crawl_facebook_events returns the empty list and main
\* returns without raising (it ends at "No events found.").
C1_FetchFailureWritesNothing ==
    FetchFailed =>
        /\ fs = fs0
        /\ events = <<>>
        /\ exc = NoExc
        /\ pc \in {"check_success", "main_check", "no_events"}
        /\ "write_debug" \notin { trace[i] : i \in DOMAIN trace }
        /\ pc # "check_success" => Logged("Crawl failed: {}", result.error_message)

C1_Witness ==
    /\ FetchFailed
    /\ pc = "no_events"
    /\ result.markdown # <<>>
    /\ result.error_message = "timeout"
    /\ fs.dir

\* C2: after an empty extraction (fetch succeeded, extracted_content None or
\* empty, whatever the markdown) the run writes no file at all, and it ends
\* by printing "No content extracted." and returning normally.
C2_EmptyExtractionWritesNothing ==
    EmptyExtraction =>
        /\ fs = fs0
        /\ pc # "aborted"
        /\ pc \in Terminal =>
               pc = "no_events" /\ Logged("No content extracted.", "")


\* C3: mapping is all-or-nothing.  When an element of the extracted array
\* lacks a required field, no Event list is returned, outputs/events.md is
\* not written, the run never gets back to main's report branch, and the
\* mapper ends the run with a ValidationError naming the fields the first
\* such element lacks, also when every other element is valid.
C3_MappingAllOrNothing ==
    HasInvalid =>
        /\ events = <<>>
        /\ Report = fs0.files[EVENTS_MD]
        /\ pc \notin {"main_check", "generate", "done", "no_events"}
        /\ "write_report" \notin { trace[i] : i \in DOMAIN trace }
        /\ (pc = "aborted" /\ Count(trace, "map") = 1) =>
               /\ exc.type = "ValidationError"
               /\ exc.missing = MissingFields(ArrayItems[FirstInvalid])
               /\ exc.missing # {}

C3_Witness ==
    /\ HasInvalid
    /\ pc = "aborted"
    /\ exc.type = "ValidationError"
    /\ exc.missing = {"organizer"}
    /\ Len(ArrayItems) = 2
    /\ ~InvalidAt(1)
    /\ fs0.files[EVENTS_MD].exists

\* C4: when every element of the extracted array is valid, the list
\* crawl_facebook_events returns is as long as the array and its i-th record
\* holds the fields of the array's i-th element: nothing is dropped,
\* deduplicated or reordered.
C4_MappingPreservesOrder ==
    (HasArray /\ ~HasInvalid /\ pc \in {"main_check", "generate", "done", "no_events"}) =>
        /\ Len(events) = Len(ArrayItems)
        /\ \A i \in DOMAIN ArrayItems :
               \A f \in Fields : events[i][f] = ArrayItems[i][f]

C4_Witness ==
    /\ HasArray
    /\ pc = "main_check"
    /\ Len(events) = 2
    /\ events[1] = events[2]
    /\ events[1].title = <<"B">>

\* C6: after every run that writes it, outputs/events.md holds exactly the
\* rendering of that run's events (header, then one section per event) and
\* nothing of what earlier runs wrote; writing it leaves the run's debug
\* file as crawl_facebook_events left it.
C6_ReportOverwritten ==
    pc = "done" =>
        /\ Report.exists
        /\ \E now \in Clocks :
               Report.content = Header(now, source_url) \o RenderEvents(events)
        /\ fs.files[DEBUG_MD] =
               IF result.markdown = <<>> THEN fs0.files[DEBUG_MD]
               ELSE File(result.markdown)

C6_Witness ==
    /\ pc = "done"
    /\ fs0.files[EVENTS_MD].exists
    /\ fs0.files[EVENTS_MD].content # Report.content
    /\ Len(events) = 1


NoLineBreak(evs) ==
    \A i \in DOMAIN evs : \A f \in Fields :
        \A k \in DOMAIN evs[i][f] : evs[i][f][k] # "\n"

\* C5 as stated: for every list of Event records, with arbitrary field
\* values, the titles of the "## " heading lines of the rendered report are
\* the titles of the records, in order.
C5_RoundTrip ==
    pc = "rt_written" => HeadingTitles(Report.content) = TitlesOf(events)

\* C5 amended: for every list of Event records none of whose field values
\* holds a line break, the titles of the "## " heading lines of the rendered
\* report are the titles of the records, in order.
C5_RoundTripNoLineBreak ==
    (pc = "rt_written" /\ NoLineBreak(events)) =>
        HeadingTitles(Report.content) = TitlesOf(events)

C5_Witness ==
    /\ pc = "rt_written"
    /\ NoLineBreak(events)
    /\ Len(events) = 2
    /\ events[1].title = <<"#">>
    /\ events[2].date = <<"#">>
    /\ HeadingTitles(Report.content) = << <<"#">>, <<>> >>

Effects == { trace[i] : i \in DOMAIN trace }

C8_OneOfEach ==
    pc \notin {"idle", "rt_build", "rt_written"} =>
        /\ Count(trace, "fetch") = 1
        /\ trace[1] = "fetch"
        /\ Count(trace, "map") <= 1
        /\ Count(trace, "write_report") <= 1
        /\ \A i, j \in DOMAIN trace :
               (trace[i] = "map" /\ trace[j] = "write_report") => i < j

C8_FailureIsTerminal ==
    /\ (FetchFailed \/ EmptyExtraction) =>
           /\ "map" \notin Effects
           /\ "write_report" \notin Effects
           /\ pc \notin {"map", "generate", "done"}
    /\ (InRun /\ exc # NoExc) =>
           /\ pc = "aborted"
           /\ "write_report" \notin Effects

C8_OneOutcome ==
    InRun =>
        /\ pc = "done" <=> "write_report" \in Effects
        /\ pc = "aborted" <=> exc # NoExc
        /\ pc = "no_events" => (events = <<>> /\ Logged("No events found.", ""))

\* C8: a run is one sequential task without retry.  It issues exactly one
\* fetch, then at most one mapping pass, then at most one report write;
\* after a fetch failure, an empty extraction or a mapper failure nothing
\* more is fetched, mapped or written in that run; and every run whose
\* fetch returns ends in exactly one of: report written, no events found,
\* aborted.
C8_SingleSequentialRun ==
    /\ [](C8_OneOfEach /\ C8_FailureIsTerminal /\ C8_OneOutcome)
    /\ (pc = "check_success") ~> (pc \in Terminal)

C8_Witness ==
    /\ pc = "done"
    /\ trace = <<"fetch", "write_debug", "map", "mkdir", "write_report">>
    /\ Len(events) = 2

\* C9: every write a run performs under outputs/ comes after the directory
\* was created in that run or existed when the run started, and no run with
\* a successful fetch is aborted by a write into a missing directory.
C9_WritesAfterDirectory ==
    InRun =>
        /\ \A i \in DOMAIN trace :
               trace[i] \in {"write_debug", "write_report"} =>
                   \/ fs0.dir
                   \/ \E j \in 1..(i - 1) : trace[j] = "mkdir"
        /\ exc.type # "FileNotFoundError"

\* C10: a run writes outputs/events.md if and only if the fetch succeeded,
\* extracted_content is non-empty and is an array of at least one element
\* whose elements all map to a valid Event; every other run leaves
\* outputs/events.md as the previous run left it.
C10_ReportWrittenIff ==
    pc \in Terminal =>
        LET complete ==
                /\ HasArray
                /\ ~HasInvalid
                /\ Len(ArrayItems) >= 1
        IN  /\ "write_report" \in Effects <=> complete
            /\ ~complete => Report = fs0.files[EVENTS_MD]
            /\ "write_report" \in Effects => Len(events) >= 1

====
